---- MODULE Spec2Model ----
(***************************************************************************)
(* ReactorListModal (src/components/middle/ReactorListModal.tsx): the      *)
(* list of users who reacted to / saw a message, its filter tabs, its      *)
(* backward pagination and its close / navigate lifecycle.                 *)
(*                                                                         *)
(* A user id is a number in Users, a reaction kind a number in Kinds;      *)
(* None (0) is JavaScript's undefined for both.  An absent object          *)
(* (reactors, reactions) is a record whose field defined is FALSE.         *)
(***************************************************************************)
EXTENDS Integers, Sequences, FiniteSets, TLC

\* ------------------------------------------------------------------ bounds
MaxEntries == 3
MaxSeen == 1
MaxLoaded == 2

Users == {1, 2, 3}
Kinds == {1, 2}
None == 0
\* the one message the overlay is opened for (chatId, messageId)
Msg == 1

MIN_REACTIONS_COUNT_FOR_FILTERS == 10

\* ------------------------------------------------------------------ helpers
Range(s) == {s[i] : i \in 1..Len(s)}

SeqsUpTo(S, n) == UNION {[1..k -> S] : k \in 0..n}

Entry == [userId : Users, reaction : Kinds]

NoReactors == [defined |-> FALSE, reactions |-> <<>>, more |-> FALSE, count |-> 0]

\* l.userId for every l of a list of entries: reactions.map((l) => l.userId)
RECURSIVE MapUserId(_)
MapUserId(es) ==
  IF es = <<>> THEN <<>> ELSE <<Head(es).userId>> \o MapUserId(Tail(es))

\* l.reaction for every l of a list of entries
RECURSIVE MapReaction(_)
MapReaction(es) ==
  IF es = <<>> THEN <<>> ELSE <<Head(es).reaction>> \o MapReaction(Tail(es))

\* reactions.filter((l) => l.reaction === tab)
RECURSIVE FilterByReaction(_, _)
FilterByReaction(es, tab) ==
  IF es = <<>> THEN <<>>
  ELSE IF Head(es).reaction = tab
       THEN <<Head(es)>> \o FilterByReaction(Tail(es), tab)
       ELSE FilterByReaction(Tail(es), tab)

\* util/iteratees unique: Array.from(new Set(array)), first occurrence kept
RECURSIVE UniqueFrom(_, _)
UniqueFrom(s, acc) ==
  IF s = <<>> THEN acc
  ELSE IF Head(s) \in Range(acc)
       THEN UniqueFrom(Tail(s), acc)
       ELSE UniqueFrom(Tail(s), Append(acc, Head(s)))

unique(s) == UniqueFrom(s, <<>>)

\* ------------------------------------------------------------------ state
VARIABLES
  reactorModal,   \* global.reactorModal: None, or Msg while the overlay is requested open
  reactors,       \* message.reactors of Msg in the global store
  reactions,      \* message.reactions of Msg: [defined, results], results the kinds
  seenByUserIds,  \* message.seenByUserIds of Msg
  isOpen,         \* the isOpen prop as last rendered by the component
  isClosing,      \* useFlag(false)
  chosenTab,      \* useState(undefined)
  chatIdRef,      \* useRef().current
  modal,          \* the Modal's transition: "closed", "open" or "closing"
  pendingFetch,   \* the pagination controller's guard against a second fetch
  inFlight,       \* number of loadReactors requests whose result is outstanding
  getMoreSeen,    \* the getMore the effect of lines 116-118 last ran for
  calls,          \* the global actions called by the last step, in call order
  op,             \* the event handled by the last step
  sessionClick    \* history: the entry clicked since the overlay was last
                  \* requested open from Closed (None: none ever, Stale: none
                  \* in this session, one in an earlier session)

vars == <<reactorModal, reactors, reactions, seenByUserIds, isOpen, isClosing,
          chosenTab, chatIdRef, modal, pendingFetch, inFlight, getMoreSeen,
          calls, op, sessionClick>>

Stale == -1

Call(fn, arg) == [fn |-> fn, arg |-> arg]

\* ------------------------------------------------------------------ props
\* withGlobal's mapping: chatId and the message's fields exist only while
\* global.reactorModal does, which is what the parent passes as isOpen
PropChatId(open) == IF open THEN Msg ELSE None

PropReactors(open, rs) == IF open THEN rs ELSE NoReactors

PropReactions(open, rn) == IF open THEN rn ELSE [defined |-> FALSE, results |-> <<>>]

PropSeen(open, seen) == IF open THEN seen ELSE <<>>

\* ------------------------------------------------------------------ derived
\* canShowFilters that wants more than the minimum count
canShowFiltersAboveMin(rs, rn) ==
  /\ rs.defined
  /\ rn.defined
  /\ rs.count > MIN_REACTIONS_COUNT_FOR_FILTERS
  /\ Len(rn.results) > 1

canShowFilters(rs, rn) ==
  /\ rs.defined
  /\ rn.defined
  /\ rs.count >= MIN_REACTIONS_COUNT_FOR_FILTERS
  /\ Len(rn.results) > 1

allReactions(rs) ==
  IF rs.defined THEN unique(MapReaction(rs.reactions)) ELSE <<>>

\* userIds that forgets the seen ids when no filter is chosen
userIdsWithoutSeen(tab, rs, seen) ==
  IF tab # None
  THEN IF rs.defined THEN MapUserId(FilterByReaction(rs.reactions, tab)) ELSE <<>>
  ELSE unique(IF rs.defined THEN MapUserId(rs.reactions) ELSE <<>>)

\* userIds that appends the seen ids under a filter as well
userIdsSeenUnderFilter(tab, rs, seen) ==
  IF tab # None
  THEN IF rs.defined
       THEN unique(MapUserId(FilterByReaction(rs.reactions, tab)) \o seen) ELSE <<>>
  ELSE unique(IF rs.defined THEN MapUserId(rs.reactions) \o seen ELSE <<>>)

\* the memoised userIds; an undefined list (no reactors under a filter) is <<>>
userIds(tab, rs, seen) ==
  IF tab # None
  THEN IF rs.defined THEN MapUserId(FilterByReaction(rs.reactions, tab)) ELSE <<>>
  ELSE unique(IF rs.defined THEN MapUserId(rs.reactions) \o seen ELSE <<>>)

\* an isDisabled with the cursor test inverted (nextOffset !== undefined)
isDisabledWhileMore(rs) == rs.defined /\ rs.more

\* third argument of useInfiniteScroll
isDisabled(rs) == rs.defined /\ ~rs.more

\* ------------------------------------------------------------------ component
\* The component's own state as one record, so that a handler, the render
\* that follows it and the effects of that render compose as functions.
Component ==
  [isOpen |-> isOpen, isClosing |-> isClosing, chosenTab |-> chosenTab,
   chatIdRef |-> chatIdRef, modal |-> modal, pendingFetch |-> pendingFetch,
   inFlight |-> inFlight, getMoreSeen |-> getMoreSeen, calls |-> <<>>]

\* the lifecycle effect without its setChosenTab(undefined)
RECURSIVE LifecycleEffectKeepsTab(_, _, _)
LifecycleEffectKeepsTab(c, prevOpen, prevClosing) ==
  IF c.isOpen = prevOpen /\ c.isClosing = prevClosing THEN c
  ELSE LET c1 == IF c.isOpen /\ ~c.isClosing
                 THEN [c EXCEPT !.chatIdRef = None] ELSE c
           c2 == IF c1.isClosing /\ ~c1.isOpen
                 THEN [c1 EXCEPT !.isClosing = FALSE] ELSE c1
       IN LifecycleEffectKeepsTab(c2, c.isOpen, c.isClosing)

\* the lifecycle effect without its reset of chatIdRef.current
RECURSIVE LifecycleEffectKeepsTarget(_, _, _)
LifecycleEffectKeepsTarget(c, prevOpen, prevClosing) ==
  IF c.isOpen = prevOpen /\ c.isClosing = prevClosing THEN c
  ELSE LET c2 == IF c.isClosing /\ ~c.isOpen
                 THEN [c EXCEPT !.isClosing = FALSE, !.chosenTab = None] ELSE c
       IN LifecycleEffectKeepsTarget(c2, c.isOpen, c.isClosing)

\* useEffect(..., [isClosing, isOpen, stopClosing]): runs when a dependency
\* differs from the previous render's; stopClosing() re-renders, so it runs again
RECURSIVE LifecycleEffect(_, _, _)
LifecycleEffect(c, prevOpen, prevClosing) ==
  IF c.isOpen = prevOpen /\ c.isClosing = prevClosing THEN c
  ELSE LET c1 == IF c.isOpen /\ ~c.isClosing
                 THEN [c EXCEPT !.chatIdRef = None] ELSE c
           c2 == IF c1.isClosing /\ ~c1.isOpen
                 THEN [c1 EXCEPT !.isClosing = FALSE, !.chosenTab = None] ELSE c1
       IN LifecycleEffect(c2, c.isOpen, c.isClosing)

\* the loadReactors action: without a chat and message there is nothing to
\* request; otherwise one request is outstanding until it succeeds or fails
loadReactors(c, chatId) ==
  LET c1 == [c EXCEPT !.calls = Append(@, Call("loadReactors", chatId))]
  IN IF chatId = None THEN c1
     ELSE [c1 EXCEPT !.inFlight = @ + 1, !.pendingFetch = TRUE]

\* a handleLoadMore that dispatches the action twice
handleLoadMoreTwice(c) ==
  loadReactors(loadReactors(c, PropChatId(c.isOpen)), PropChatId(c.isOpen))

handleLoadMore(c) == loadReactors(c, PropChatId(c.isOpen))

\* useInfiniteScroll's second result: undefined ("none") while disabled, and a
\* new function whenever handleLoadMore is (its deps: chatId, messageId)
GetMoreId(c, rs) ==
  IF isDisabled(PropReactors(c.isOpen, rs)) THEN "none"
  ELSE IF PropChatId(c.isOpen) = None THEN "getMore()" ELSE "getMore(Msg)"

\* getMore({ direction: Backwards }): asks for a page unless one is pending
getMore(c) == IF c.pendingFetch THEN c ELSE handleLoadMore(c)

\* the effect with no dependency on getMore: it ran on the first render only
GetMoreEffectOnMountOnly(c, rs) == [c EXCEPT !.getMoreSeen = GetMoreId(c, rs)]

\* useEffect(() => getMore?.(...), [getMore])
GetMoreEffect(c, rs) ==
  LET id == GetMoreId(c, rs)
      c1 == [c EXCEPT !.getMoreSeen = id]
  IN IF id = c.getMoreSeen \/ id = "none" THEN c1 ELSE getMore(c1)

\* <Modal isOpen={isOpen && !isClosing}>: shown while the prop holds, then
\* animating its close until onCloseAnimationEnd
ModalTransition(c) ==
  IF c.isOpen /\ ~c.isClosing THEN [c EXCEPT !.modal = "open"]
  ELSE IF c.modal = "open" THEN [c EXCEPT !.modal = "closing"] ELSE c

\* a render after a handler left the component as c: the effects, the Modal
Render(c, rs) ==
  ModalTransition(GetMoreEffect(LifecycleEffect(c, isOpen, isClosing), rs))

\* the step's result: the component after its render, the store as given
Commit(c, name, modalReq, rs, rn, seen) ==
  /\ isOpen' = c.isOpen
  /\ isClosing' = c.isClosing
  /\ chosenTab' = c.chosenTab
  /\ chatIdRef' = c.chatIdRef
  /\ modal' = c.modal
  /\ pendingFetch' = c.pendingFetch
  /\ inFlight' = c.inFlight
  /\ getMoreSeen' = c.getMoreSeen
  /\ calls' = c.calls
  /\ op' = name
  /\ reactorModal' = modalReq
  /\ reactors' = rs
  /\ reactions' = rn
  /\ seenByUserIds' = seen

\* ------------------------------------------------------------------ rendering
\* useInfiniteScroll's first result: the list itself (a slice of 30 ids is
\* longer than any list of the model)
viewportIds(c, rs, seen) ==
  userIds(c.chosenTab, PropReactors(c.isOpen, rs), PropSeen(c.isOpen, seen))

\* the Modal's children exist while it is shown or animating its close
Rendered == modal # "closed"

\* a ListItem of userId exists: one per entry of a user of the viewport
HasItem(u) ==
  /\ Rendered
  /\ u \in Range(viewportIds(Component, reactors, seenByUserIds))
  /\ \E i \in 1..Len(PropReactors(isOpen, reactors).reactions) :
        PropReactors(isOpen, reactors).reactions[i].userId = u

\* getGlobal().users.byId: the profile record of a user id, None when the
\* store has none (user 2's is missing)
KnownUsers == {1, 3}

usersById(u) == IF u \in KnownUsers THEN u ELSE None

\* userReactions.forEach: a ListItem per entry of userId among rs.reactions
RECURSIVE ItemsOfUser(_, _)
ItemsOfUser(es, userId) ==
  IF es = <<>> THEN <<>>
  ELSE IF Head(es).userId = userId
       THEN <<[userId |-> userId, reaction |-> Head(es).reaction,
               user |-> usersById(userId)]>> \o ItemsOfUser(Tail(es), userId)
       ELSE ItemsOfUser(Tail(es), userId)

\* viewportIds.flatMap(...): the ListItems in render order
RECURSIVE ListItems(_, _)
ListItems(ids, rs) ==
  IF ids = <<>> \/ ~rs.defined THEN <<>>
  ELSE ItemsOfUser(rs.reactions, Head(ids)) \o ListItems(Tail(ids), rs)

\* the filter Buttons in render order, each by the tab it chooses (None: the
\* "all" Button); none unless canShowFilters
FilterTabs(rs, rn) ==
  IF canShowFilters(rs, rn) THEN <<None>> \o allReactions(rs) ELSE <<>>

Tabs == FilterTabs(PropReactors(isOpen, reactors), PropReactions(isOpen, reactions))

\* a filter Button choosing k exists
HasTab(k) == Rendered /\ k \in Range(Tabs)

\* ------------------------------------------------------------------ values
CountValues == {MIN_REACTIONS_COUNT_FOR_FILTERS - 1, MIN_REACTIONS_COUNT_FOR_FILTERS}

ReactionsValues ==
  {[defined |-> FALSE, results |-> <<>>],
   [defined |-> TRUE, results |-> <<1>>],
   [defined |-> TRUE, results |-> <<1, 2>>]}

\* the seen lists and the pages the lifecycle draws from (user 3 only sees)
SeenValues == {<<>>, <<3>>}

PageEntry == [userId : {1, 2}, reaction : Kinds]

\* a page of the reactions list: at most one entry more, within the bound
Pages(held) == {p \in SeqsUpTo(PageEntry, 1) : Len(held) + Len(p) <= MaxLoaded}

\* ------------------------------------------------------------------ actions
\* the overlay is requested open (global.reactorModal is set)
OpenRequest ==
  /\ Commit(Component, "OpenRequest", Msg, reactors, reactions, seenByUserIds)
  /\ sessionClick' = IF modal = "closed" /\ sessionClick # None
                     THEN Stale ELSE sessionClick

\* global.reactorModal is unset from outside the component
ExternalClose ==
  /\ reactorModal = Msg
  /\ Commit(Component, "ExternalClose", None, reactors, reactions, seenByUserIds)
  /\ UNCHANGED sessionClick

\* the component renders with the props the global state now maps to
PropsUpdate ==
  /\ isOpen # (reactorModal # None)
  /\ Commit(Render([Component EXCEPT !.isOpen = (reactorModal # None)], reactors),
            "PropsUpdate", reactorModal, reactors, reactions, seenByUserIds)
  /\ UNCHANGED sessionClick

\* handleClose: the Modal's onClose, or the Close button
handleClose(c) == [c EXCEPT !.isClosing = TRUE]

CloseRequest ==
  /\ Rendered
  /\ Commit(Render(handleClose(Component), reactors),
            "CloseRequest", reactorModal, reactors, reactions, seenByUserIds)
  /\ UNCHANGED sessionClick

handleClick(c, userId) == handleClose([c EXCEPT !.chatIdRef = userId])

Click(u) ==
  /\ HasItem(u)
  /\ Commit(Render(handleClick(Component, u), reactors),
            "Click", reactorModal, reactors, reactions, seenByUserIds)
  /\ sessionClick' = u

\* handleCloseAnimationEnd that reports the close before it navigates
handleCloseAnimationEndCloseFirst(c) ==
  LET c1 == [c EXCEPT !.calls = Append(@, Call("closeReactorListModal", None))]
  IN IF c.chatIdRef # None
     THEN [c1 EXCEPT !.calls = Append(@, Call("openChat", c.chatIdRef))]
     ELSE c1

handleCloseAnimationEnd(c) ==
  LET c1 == IF c.chatIdRef # None
            THEN [c EXCEPT !.calls = Append(@, Call("openChat", c.chatIdRef))]
            ELSE c
  IN [c1 EXCEPT !.calls = Append(@, Call("closeReactorListModal", None))]

\* the Modal's close animation ends: onCloseAnimationEnd
CloseAnimationEnd ==
  /\ modal = "closing"
  /\ Commit(Render(handleCloseAnimationEnd([Component EXCEPT !.modal = "closed"]),
                   reactors),
            "CloseAnimationEnd", None, reactors, reactions, seenByUserIds)
  /\ UNCHANGED sessionClick

\* a tab click that also asks for a page
setChosenTabAndLoad(c, k) == handleLoadMore([c EXCEPT !.chosenTab = k])

\* onClick of a filter Button: setChosenTab
setChosenTab(c, k) == [c EXCEPT !.chosenTab = k]

SelectTab(k) ==
  /\ HasTab(k)
  /\ Commit(Render(setChosenTab(Component, k), reactors),
            "SelectTab", reactorModal, reactors, reactions, seenByUserIds)
  /\ UNCHANGED sessionClick

\* an InfiniteScroll that was given no onLoadMore
onLoadMoreUnset(c, rs) == c

\* InfiniteScroll's onLoadMore={getMore}: the list is scrolled near its end;
\* without a getMore the event has no handler
onLoadMore(c, rs) == IF GetMoreId(c, rs) = "none" THEN c ELSE getMore(c)

ScrollNearEnd ==
  /\ Rendered
  /\ viewportIds(Component, reactors, seenByUserIds) # <<>>
  /\ Commit(Render(onLoadMore(Component, reactors), reactors),
            "ScrollNearEnd", reactorModal, reactors, reactions, seenByUserIds)
  /\ UNCHANGED sessionClick

\* a request's page arrives and is added to the message's reactors
MergePage(rs, page, more, cnt) ==
  [defined |-> TRUE, reactions |-> rs.reactions \o page, more |-> more, count |-> cnt]

FetchSuccess(page, more, cnt) ==
  /\ inFlight > 0
  /\ LET rs == MergePage(reactors, page, more, cnt)
         c == [Component EXCEPT !.inFlight = @ - 1, !.pendingFetch = FALSE]
     IN Commit(Render(c, rs), "FetchSuccess", reactorModal, rs, reactions, seenByUserIds)
  /\ UNCHANGED sessionClick

\* a request fails: nothing is merged
FetchFail ==
  /\ inFlight > 0
  /\ Commit(Render([Component EXCEPT !.inFlight = @ - 1, !.pendingFetch = FALSE],
                   reactors),
            "FetchFail", reactorModal, reactors, reactions, seenByUserIds)
  /\ UNCHANGED sessionClick

\* the message's reaction counters change (an update from the server)
UpdateReactions(rn) ==
  /\ rn # reactions
  /\ Commit(Render(Component, reactors),
            "UpdateReactions", reactorModal, reactors, rn, seenByUserIds)
  /\ UNCHANGED sessionClick

\* ------------------------------------------------------------------ Spec
\* after construction: nothing requested open, nothing loaded; the first
\* render's effects have run (getMore exists and was called with no message)
Init ==
  /\ reactorModal = None
  /\ reactors = NoReactors
  /\ reactions \in ReactionsValues
  /\ seenByUserIds \in SeenValues
  /\ isOpen = FALSE
  /\ isClosing = FALSE
  /\ chosenTab = None
  /\ chatIdRef = None
  /\ modal = "closed"
  /\ pendingFetch = FALSE
  /\ inFlight = 0
  /\ getMoreSeen = "getMore()"
  /\ calls = <<Call("loadReactors", None)>>
  /\ op = "mount"
  /\ sessionClick = None

Next ==
  \/ OpenRequest
  \/ ExternalClose
  \/ PropsUpdate
  \/ CloseRequest
  \/ \E u \in Users : Click(u)
  \/ CloseAnimationEnd
  \/ \E k \in Kinds \cup {None} : SelectTab(k)
  \/ ScrollNearEnd
  \/ \E p \in Pages(reactors.reactions), more \in BOOLEAN, cnt \in CountValues :
        FetchSuccess(p, more, cnt)
  \/ FetchFail
  \/ \E rn \in ReactionsValues : UpdateReactions(rn)

Spec == Init /\ [][Next]_vars

\* ------------------------------------------------------------------ SpecList
\* The derivations of the list and of the tabs over every held entry
\* sequence and seen list: the overlay is open on loaded data, tabs are chosen.
InitList ==
  /\ reactorModal = Msg
  /\ reactors \in [defined : {TRUE}, reactions : SeqsUpTo(Entry, MaxEntries),
                   more : {TRUE}, count : CountValues]
  /\ reactions \in ReactionsValues
  /\ seenByUserIds \in SeqsUpTo(Users, MaxSeen)
  /\ isOpen = TRUE
  /\ isClosing = FALSE
  /\ chosenTab = None
  /\ chatIdRef = None
  /\ modal = "open"
  /\ pendingFetch = FALSE
  /\ inFlight = 0
  /\ getMoreSeen = "getMore(Msg)"
  /\ calls = <<>>
  /\ op = "FetchSuccess"
  /\ sessionClick = None

NextList == \E k \in Kinds \cup {None} : SelectTab(k)

SpecList == InitList /\ [][NextList]_vars

\* ------------------------------------------------------------------ the list
\* what the component shows of the store at this state
Visible == viewportIds(Component, reactors, seenByUserIds)

Held == PropReactors(isOpen, reactors)

NoDuplicates(s) == \A i, j \in 1..Len(s) : s[i] = s[j] => i = j

FirstIndex(s, x) == CHOOSE i \in 1..Len(s) : s[i] = x /\ \A j \in 1..(i - 1) : s[j] # x

\* user u has an entry of kind k among the held entries
HasEntry(u, k) ==
  \E i \in 1..Len(Held.reactions) :
     Held.reactions[i].userId = u /\ Held.reactions[i].reaction = k

Reactors == {Held.reactions[i].userId : i \in 1..Len(Held.reactions)}

\* the ids of the entries in source order, then the seen ids
SourceIds ==
  [i \in 1..(Len(Held.reactions) + Len(seenByUserIds)) |->
     IF i <= Len(Held.reactions) THEN Held.reactions[i].userId
     ELSE seenByUserIds[i - Len(Held.reactions)]]

\* the list with no filter chosen
CandidateList == userIds(None, Held, PropSeen(isOpen, seenByUserIds))

\* C1: with a filter K chosen, the visible list is the subsequence of the
\* unfiltered CandidateList made of the ids that have an entry of kind K, in
\* CandidateList's order, each id once.
C1_FilteredIsSubsequenceOfCandidates ==
  chosenTab # None =>
    Visible = SelectSeq(CandidateList, LAMBDA u : HasEntry(u, chosenTab))

\* C2: with no filter chosen, the visible list is the entries' user ids in
\* source order followed by the seen ids, first occurrences only: no id twice,
\* every source id present, ordered by first occurrence in the source.
C2_UnfilteredIsDedupedSource ==
  (chosenTab = None /\ Held.defined) =>
    /\ NoDuplicates(Visible)
    /\ Range(Visible) = Range(SourceIds)
    /\ \A i, j \in 1..Len(Visible) :
          i < j => FirstIndex(SourceIds, Visible[i]) < FirstIndex(SourceIds, Visible[j])

\* the "all" tab was chosen again over a source that repeats an id and has a
\* seen-only user
C2_Witness ==
  /\ op = "SelectTab"
  /\ chosenTab = None
  /\ ~NoDuplicates(SourceIds)
  /\ Range(seenByUserIds) \ Reactors # {}
  /\ Len(Visible) >= 2

\* C8: a user id of the seen list with no reaction entry is absent from the
\* visible list whenever a filter is chosen.
C8_SeenOnlyAbsentUnderFilter ==
  chosenTab # None =>
    \A u \in Range(seenByUserIds) \ Reactors : u \notin Range(Visible)

\* a filter was chosen, it shows somebody, and there is a seen-only user
C8_Witness ==
  /\ op = "SelectTab"
  /\ chosenTab # None
  /\ Visible # <<>>
  /\ Range(seenByUserIds) \ Reactors # {}

\* ------------------------------------------------------------------ the tabs
Results == PropReactions(isOpen, reactions).results

LoadedKinds == {Held.reactions[i].reaction : i \in 1..Len(Held.reactions)}

\* the total count is below the minimum, or there is at most one kind
BelowThreshold ==
  \/ Held.count < MIN_REACTIONS_COUNT_FOR_FILTERS
  \/ Cardinality(Range(Results)) <= 1

\* C7 as stated: no tabs below the threshold; otherwise the "all" tab and
\* exactly one tab per distinct reaction kind of the message.
C7_TabsPerKindOfMessage ==
  IF BelowThreshold THEN Tabs = <<>>
  ELSE NoDuplicates(Tabs) /\ Range(Tabs) = {None} \cup Range(Results)

\* C7 amended: no tabs below the threshold; otherwise the "all" tab and
\* exactly one tab per distinct reaction kind among the entries loaded so far.
C7_TabsPerLoadedKind ==
  IF BelowThreshold THEN Tabs = <<>>
  ELSE NoDuplicates(Tabs) /\ Range(Tabs) = {None} \cup LoadedKinds

\* tabs are shown, and a kind of the message has no entry loaded and no tab
C7_Witness ==
  /\ ~BelowThreshold
  /\ Len(Tabs) = 2
  /\ Range(Results) \ Range(Tabs) # {}

\* ------------------------------------------------------------------ fetching
Issued(fn) == {i \in 1..Len(calls) : calls[i].fn = fn}

\* C4: the step that chooses a filter tab, with the render and the effects
\* that follow it, calls loadReactors not once.
C4_SelectTabIssuesNoFetch == op = "SelectTab" => Issued("loadReactors") = {}

\* a filter was chosen while a further page could have been asked for
C4_Witness ==
  /\ op = "SelectTab"
  /\ chosenTab # None
  /\ Held.defined /\ Held.more
  /\ ~pendingFetch

\* C5: at most one load request is outstanding at any time, and a request is
\* issued only when none was.
C5_AtMostOneFetchInFlight ==
  /\ inFlight <= 1
  /\ Cardinality(Issued("loadReactors")) <= 1
  /\ (\E i \in Issued("loadReactors") : calls[i].arg = Msg) => inFlight = 1

\* the list was scrolled near its end while a request was outstanding, and
\* nothing was issued
C5_Witness ==
  /\ op = "ScrollNearEnd"
  /\ inFlight = 1
  /\ pendingFetch
  /\ calls = <<>>

\* the last page of Msg's reactors has been received
Exhausted == reactors.defined /\ ~reactors.more

\* C6: once a page without a next offset was received, there is no more to
\* load (no getMore while the overlay shows the message), no request for the
\* message is outstanding and no step issues one.
C6_NoFetchAfterLastPage ==
  Exhausted =>
    /\ inFlight = 0
    /\ \A i \in Issued("loadReactors") : calls[i].arg # Msg
    /\ isOpen => GetMoreId(Component, reactors) = "none"

\* the list was scrolled near its end after the last page
C6_Witness ==
  /\ Exhausted
  /\ op = "ScrollNearEnd"
  /\ isOpen

\* ------------------------------------------------------------------ closing
\* C3: when the overlay is requested open again while the close animation of
\* an entry click is running, the captured user id is cleared and the
\* animation's end performs no navigation.
C3_ReopenAbortsPendingClose ==
  [][(modal = "closing" /\ op = "OpenRequest" /\ op' = "CloseAnimationEnd")
       => (chatIdRef = None /\ \A i \in 1..Len(calls') : calls'[i].fn # "openChat")]_vars

\* C9: openChat is called by the close animation's end only; an entry click
\* records the user and starts closing; the animation's end calls openChat for
\* the recorded user, if any, and closeReactorListModal after it, always.
C9_NavigateOnlyAtAnimationEnd ==
  /\ (Issued("openChat") \cup Issued("closeReactorListModal") # {})
        => op = "CloseAnimationEnd"
  /\ op = "Click" => (chatIdRef # None /\ isClosing /\ modal = "closing")
  /\ op = "CloseAnimationEnd" =>
        /\ Len(calls) = (IF chatIdRef # None THEN 2 ELSE 1)
        /\ calls[Len(calls)] = Call("closeReactorListModal", None)
        /\ Len(calls) = 2 => calls[1] = Call("openChat", chatIdRef)

\* the animation ended after an entry click: navigation, then the notification
C9_Witness ==
  /\ op = "CloseAnimationEnd"
  /\ Len(calls) = 2

\* the component renders isOpen false after its close animation has ended
ClosedEntry == isOpen /\ isClosing /\ modal = "closed" /\ ~isOpen'

OpenEntry == ~isOpen /\ isOpen'

\* C11 as stated: whenever the overlay opens for the message, one load request
\* carrying the message's chat id and message id is issued eagerly, so that a
\* page has been asked for: the opening render issues it (or finds the one
\* request of the message still outstanding).
C11_OpenIssuesOneRequest ==
  [][OpenEntry =>
       \/ calls' = <<Call("loadReactors", Msg)>>
       \/ pendingFetch /\ inFlight' = 1 /\ calls' = <<>>]_vars

\* C11 amended: the render that opens the overlay issues exactly one load
\* request for the message, without any scroll event and whatever the list
\* holds, unless the message's reactors are already loaded to their last page
\* or a request is still outstanding; then it issues none.
C11_OpenIssuesRequestUnlessDoneOrPending ==
  [][OpenEntry =>
       calls' = IF Exhausted \/ pendingFetch THEN <<>>
                ELSE <<Call("loadReactors", Msg)>>]_vars

\* the overlay was opened again on a list already held, and asked for a page
C11_Witness ==
  /\ op = "PropsUpdate"
  /\ isOpen
  /\ calls = <<Call("loadReactors", Msg)>>
  /\ Visible # <<>>

\* C12: every navigation targets the user whose entry was clicked in the
\* current session (since the overlay was requested open from Closed); a
\* session without an entry click ends without a navigation, also after a
\* session that had one.
C12_NavigationTargetsThisSessionsClick ==
  /\ \A i \in Issued("openChat") :
        sessionClick \in Users /\ calls[i].arg = sessionClick
  /\ (op = "CloseAnimationEnd" /\ sessionClick \notin Users)
        => Issued("openChat") = {}

\* a session with no entry click was closed, after a session that had one
C12_Witness ==
  /\ op = "CloseAnimationEnd"
  /\ sessionClick = Stale
  /\ calls = <<Call("closeReactorListModal", None)>>

\* ------------------------------------------------------------------ the filter
\* C13: whenever the filter threshold is not met (count below the minimum, or
\* at most one kind), no filter is active, also after the counts changed
\* under a chosen tab.
C13_NoFilterBelowThreshold == BelowThreshold => chosenTab = None

\* C16: every Closed to Open transition starts with no filter chosen, however
\* the overlay got closed.
C16_OpenStartsUnfiltered ==
  [][(OpenEntry /\ modal = "closed") => chosenTab' = None]_vars

\* C17: when the overlay is requested open with no close animation running,
\* and the component has rendered isOpen true, isClosing is false and the
\* Modal is shown.
C17_ClosingFlagNotStuck ==
  (op = "OpenRequest" /\ isOpen /\ modal # "closing")
     => (~isClosing /\ modal = "open")

\* ------------------------------------------------------------------ the items
\* the ListItems the component renders at this state
Items == ListItems(Visible, Held)

\* C18: every user id of the viewport has at least one rendered ListItem,
\* with or without a profile record, with or without a reaction entry.
C18_EveryViewportIdRendered ==
  \A u \in Range(Visible) : \E i \in 1..Len(Items) : Items[i].userId = u

\* C19: while a filter K is chosen, every rendered ListItem shows kind K.
C19_ItemsShowChosenKind ==
  chosenTab # None => \A i \in 1..Len(Items) : Items[i].reaction = chosenTab

\* C14: when the held entries end with the same page twice, the visible list
\* is the one of the entries with that page once, with or without a filter.
C14_RepeatedPageChangesNothing ==
  \A n \in 1..(Len(Held.reactions) \div 2) :
    LET len == Len(Held.reactions)
        once == [Held EXCEPT !.reactions = SubSeq(Held.reactions, 1, len - n)]
    IN SubSeq(Held.reactions, len - n + 1, len)
          = SubSeq(Held.reactions, len - 2 * n + 1, len - n)
       => Visible = userIds(chosenTab, once, PropSeen(isOpen, seenByUserIds))

\* ------------------------------------------------------------------ failure
\* more pages may be asked for: useInfiniteScroll is not disabled
HasMore == ~isDisabled(Held)

\* C15: a failed request leaves the held entries, the visible list and hasMore
\* as they were and nothing pending, and a scroll near the end right after it
\* issues a load request for the message again.
C15_FailedFetchChangesNothing ==
  [][/\ op' = "FetchFail" =>
          /\ reactors' = reactors
          /\ Visible' = Visible
          /\ HasMore' = HasMore
          /\ ~pendingFetch' /\ inFlight' = 0
     /\ (op = "FetchFail" /\ op' = "ScrollNearEnd") =>
          (calls' = <<Call("loadReactors", Msg)>> /\ inFlight' = 1)]_vars

\* a request failed under a shown, non-empty list
C15_Witness ==
  /\ op = "FetchFail"
  /\ isOpen
  /\ modal = "open"
  /\ Visible # <<>>
  /\ ~pendingFetch

====
